---- MODULE Spec2Model ----
(***************************************************************************)
(* Model of secret-wrapper-k8s (swk): the two pipelines of package secret, *)
(* DecodeSecretData (reveal) and EncodeSecretData (conceal), over a parsed *)
(* yaml.Node tree.                                                         *)
(*                                                                         *)
(* A Go string is a sequence of byte values 0..255.  A yaml.Node is a      *)
(* record: a scalar carries Value and Style, a mapping carries its Content *)
(* as an ordered sequence of (key, val) pairs, a sequence carries its      *)
(* Content as an ordered sequence of nodes.  yaml.v3 and encoding/base64   *)
(* are imported libraries: base64 is computed bit for bit as               *)
(* base64.StdEncoding computes it (padded, not strict, CR and LF skipped   *)
(* by the decoder); parsing and emitting are modelled on the tree, with    *)
(* the one failure the emitter has on a parsed tree (a scalar whose text   *)
(* is not valid UTF-8).                                                    *)
(***************************************************************************)
EXTENDS Integers, Sequences, FiniteSets, TLC

VARIABLES
    op,       \* which entry point runs: "reveal" (DecodeSecretData) or "conceal" (EncodeSecretData)
    input,    \* the []byte argument
    pc,       \* position inside the entry point
    doc,      \* the local yaml.Node (var doc yaml.Node)
    err,      \* the returned error, NoErr when nil
    output,   \* the returned []byte, Nil when nil
    stages,   \* history: the stages that have executed, in order
    calls,    \* history: the (key, argument) pairs the codec was applied to, in order
    prev,     \* history: the invocation whose output is this invocation's input
    chain,    \* history: how many invocations fed this one
    env,      \* the process environment: $EDITOR and $VISUAL
    selected, \* the last call of SelectEditor: its argument, the environment it saw, its result
    fs,       \* the file system of a run of swk: the original file and the temp file
    run,      \* the locals of run and where it stands
    trace,    \* history of a run: its steps, and what was written to the original file
    inv,      \* the invocations of entry points running concurrently, one per goroutine
    bufs,     \* the byte buffers that marshalWithIndent's writers append to
    probe     \* the last call of IsSecret: its argument and its result

\* The variables of one invocation of an entry point.
pipeVars == <<op, input, pc, doc, err, output, stages, calls, prev, chain>>
\* The variables of editor selection.
editorVars == <<env, selected>>
\* The variables of a run of the command.
cliVars == <<fs, run, trace>>
\* The variables of concurrent invocations.
concVars == <<inv, bufs>>
\* The variable of a call of IsSecret.
probeVars == <<probe>>

vars == <<pipeVars, editorVars, cliVars, concVars, probeVars>>

\* Model bounds.
MaxData == 2      \* entries of a generated data mapping
MaxChain == 1     \* invocations fed with the output of an earlier one

Nil == [kind |-> "nil"]
NoErr == [stage |-> "none"]
NoDoc == [kind |-> "zero"]
NoPrev == [op |-> "none"]

\* The parts of the state a specification does not use stay idle.
NotSelected == [result |-> "<none>"]
EditorIdle == env = [EDITOR |-> "", VISUAL |-> ""] /\ selected = NotSelected
CliIdle == fs = <<>> /\ run = <<>> /\ trace = <<>>
ConcIdle == inv = <<>> /\ bufs = <<>>
NotCalled == [called |-> FALSE]
ProbeIdle == probe = NotCalled
PipeIdle ==
    /\ op = "none" /\ input = Nil /\ pc = "idle" /\ doc = NoDoc /\ err = NoErr
    /\ output = Nil /\ stages = <<>> /\ calls = <<>> /\ prev = NoPrev /\ chain = 0

----------------------------------------------------------------------------
\* Text helpers.

\* "Secret", "ConfigMap" as byte strings.
SecretText == <<83, 101, 99, 114, 101, 116>>
ConfigMapText == <<67, 111, 110, 102, 105, 103, 77, 97, 112>>

\* A mutant of containsNewline: looks at the first character only.
containsNewlineFirstOnly(s) == Len(s) > 0 /\ s[1] = 10

\* containsNewline: true iff some character of s is '\n'.
containsNewline(s) == \E i \in 1..Len(s) : s[i] = 10

----------------------------------------------------------------------------
\* encoding/base64, StdEncoding.

\* The standard alphabet: the character that stands for the 6-bit value v.
encodeChar(v) ==
    IF v < 26 THEN 65 + v
    ELSE IF v < 52 THEN 97 + (v - 26)
    ELSE IF v < 62 THEN 48 + (v - 52)
    ELSE IF v = 62 THEN 43
    ELSE 47

\* decodeMap: the 6-bit value of character c, 255 when c is not in the alphabet.
decodeMap(c) ==
    IF c >= 65 /\ c <= 90 THEN c - 65
    ELSE IF c >= 97 /\ c <= 122 THEN c - 97 + 26
    ELSE IF c >= 48 /\ c <= 57 THEN c - 48 + 52
    ELSE IF c = 43 THEN 62
    ELSE IF c = 47 THEN 63
    ELSE 255

RECURSIVE EncodeFrom(_, _)
\* EncodeToString from byte i on: 3 bytes give 4 characters, a remainder of
\* 1 or 2 bytes gives 2 or 3 characters and '=' padding up to 4.
EncodeFrom(s, i) ==
    LET n == Len(s) - i + 1 IN
    IF n <= 0 THEN <<>>
    ELSE IF n >= 3 THEN
        LET val == s[i] * 65536 + s[i+1] * 256 + s[i+2] IN
        << encodeChar(val \div 262144), encodeChar((val \div 4096) % 64),
           encodeChar((val \div 64) % 64), encodeChar(val % 64) >>
        \o EncodeFrom(s, i + 3)
    ELSE IF n = 2 THEN
        LET val == s[i] * 65536 + s[i+1] * 256 IN
        << encodeChar(val \div 262144), encodeChar((val \div 4096) % 64),
           encodeChar((val \div 64) % 64), 61 >>
    ELSE
        LET val == s[i] * 65536 IN
        << encodeChar(val \div 262144), encodeChar((val \div 4096) % 64), 61, 61 >>

\* A mutant of encodeBase64: the unpadded encoding (RawStdEncoding).
encodeBase64Raw(plain) ==
    [ok |-> TRUE, val |-> SelectSeq(EncodeFrom(plain, 1), LAMBDA c : c # 61)]

\* A mutant of encodeBase64: the empty text is refused.
encodeBase64RejectsEmpty(plain) ==
    IF plain = <<>> THEN [ok |-> FALSE, val |-> <<>>]
    ELSE [ok |-> TRUE, val |-> EncodeFrom(plain, 1)]

\* encodeBase64: total, the padded standard encoding of the text's bytes.
encodeBase64(plain) == [ok |-> TRUE, val |-> EncodeFrom(plain, 1)]

RECURSIVE skipNewlines(_, _)
\* The decoder's "skip over newlines" loops: first index >= si that holds
\* neither '\n' nor '\r' (Len+1 at the end).
skipNewlines(src, si) ==
    IF si <= Len(src) /\ (src[si] = 10 \/ src[si] = 13)
    THEN skipNewlines(src, si + 1)
    ELSE si

\* The bytes of one quantum: dbuf holds dlen 6-bit values, dlen - 1 bytes come out.
quantumBytes(dbuf) ==
    LET d(k) == IF k <= Len(dbuf) THEN dbuf[k] ELSE 0
        val == d(1) * 262144 + d(2) * 4096 + d(3) * 64 + d(4)
        all == << val \div 65536, (val \div 256) % 256, val % 256 >>
    IN SubSeq(all, 1, Len(dbuf) - 1)

DecodeFail == [ok |-> FALSE, val |-> <<>>]

RECURSIVE DecodeFrom(_, _, _, _)
\* Decode / decodeQuantum from index si with dbuf collected so far and out
\* decoded so far.  Not strict: the unused low bits of the last character
\* before the padding are not checked.
DecodeFrom(src, si, dbuf, out) ==
    LET j == Len(dbuf) IN
    IF j = 4 THEN DecodeFrom(src, si, <<>>, out \o quantumBytes(dbuf))
    ELSE IF si > Len(src) THEN
        IF j = 0 THEN [ok |-> TRUE, val |-> out] ELSE DecodeFail
    ELSE
        LET in == src[si] IN
        IF decodeMap(in) # 255 THEN DecodeFrom(src, si + 1, Append(dbuf, decodeMap(in)), out)
        ELSE IF in = 10 \/ in = 13 THEN DecodeFrom(src, si + 1, dbuf, out)
        ELSE IF in # 61 THEN DecodeFail
        ELSE IF j < 2 THEN DecodeFail
        ELSE IF j = 2 THEN
            LET s2 == skipNewlines(src, si + 1) IN
            IF s2 > Len(src) THEN DecodeFail
            ELSE IF src[s2] # 61 THEN DecodeFail
            ELSE IF skipNewlines(src, s2 + 1) <= Len(src) THEN DecodeFail
            ELSE [ok |-> TRUE, val |-> out \o quantumBytes(dbuf)]
        ELSE
            IF skipNewlines(src, si + 1) <= Len(src) THEN DecodeFail
            ELSE [ok |-> TRUE, val |-> out \o quantumBytes(dbuf)]

RECURSIVE trimRight(_)
\* s without its trailing line feeds and carriage returns.
trimRight(s) ==
    IF Len(s) > 0 /\ (s[Len(s)] = 10 \/ s[Len(s)] = 13)
    THEN trimRight(SubSeq(s, 1, Len(s) - 1))
    ELSE s

\* A mutant of decodeBase64: the decoded text is trimmed of trailing line breaks.
decodeBase64Trimmed(encoded) ==
    LET r == DecodeFrom(encoded, 1, <<>>, <<>>)
    IN [ok |-> r.ok, val |-> trimRight(r.val)]

\* decodeBase64: partial; ok = FALSE is the "invalid base64" error.
decodeBase64(encoded) == DecodeFrom(encoded, 1, <<>>, <<>>)

----------------------------------------------------------------------------
\* yaml.v3 node trees.

Scalar(value, style) == [kind |-> "scalar", value |-> value, style |-> style]
Mapping(content) == [kind |-> "mapping", content |-> content]
Sequence(content) == [kind |-> "sequence", content |-> content]
Pair(key, val) == [key |-> key, val |-> val]
Document(root) == [kind |-> "document", content |-> <<root>>]

\* A nil *yaml.Node.
NilNode == [kind |-> "nilptr"]

\* The Value field of a node: the text of a scalar, "" for any other node.
Value(node) == IF node.kind = "scalar" THEN node.value ELSE <<>>

\* A mutant of findFieldIndex: when no key matches, the index the loop
\* stopped at (the last pair) is returned.
findFieldIndexLastOnMiss(node, key) ==
    IF node.kind # "mapping" THEN 0
    ELSE LET hits == {i \in 1..Len(node.content) : node.content[i].key = key}
         IN IF hits = {} THEN Len(node.content)
            ELSE CHOOSE i \in hits : \A k \in hits : i <= k

\* The index of the first pair of a mapping whose key is key; 0 when the
\* node is not a mapping or has no such key (findField returning nil).
findFieldIndex(node, key) ==
    IF node.kind # "mapping" THEN 0
    ELSE LET hits == {i \in 1..Len(node.content) : node.content[i].key = key}
         IN IF hits = {} THEN 0
            ELSE CHOOSE i \in hits : \A k \in hits : i <= k

\* findField: the value node of the first pair whose key is key, or nil.
findField(node, key) ==
    LET i == findFieldIndex(node, key)
    IN IF i = 0 THEN NilNode ELSE node.content[i].val

\* unicode/utf8.ValidString, as the emitter applies it to a scalar's text.
RECURSIVE utf8Valid(_, _)
utf8Valid(s, i) ==
    LET cont(k, lo, hi) == k <= Len(s) /\ s[k] >= lo /\ s[k] <= hi IN
    IF i > Len(s) THEN TRUE
    ELSE LET b == s[i] IN
         IF b < 128 THEN utf8Valid(s, i + 1)
         ELSE IF b >= 194 /\ b <= 223 THEN cont(i+1, 128, 191) /\ utf8Valid(s, i + 2)
         ELSE IF b = 224 THEN cont(i+1, 160, 191) /\ cont(i+2, 128, 191) /\ utf8Valid(s, i + 3)
         ELSE IF b = 237 THEN cont(i+1, 128, 159) /\ cont(i+2, 128, 191) /\ utf8Valid(s, i + 3)
         ELSE IF b >= 225 /\ b <= 239 THEN cont(i+1, 128, 191) /\ cont(i+2, 128, 191) /\ utf8Valid(s, i + 3)
         ELSE IF b = 240 THEN cont(i+1, 144, 191) /\ cont(i+2, 128, 191) /\ cont(i+3, 128, 191) /\ utf8Valid(s, i + 4)
         ELSE IF b >= 241 /\ b <= 243 THEN cont(i+1, 128, 191) /\ cont(i+2, 128, 191) /\ cont(i+3, 128, 191) /\ utf8Valid(s, i + 4)
         ELSE IF b = 244 THEN cont(i+1, 128, 143) /\ cont(i+2, 128, 191) /\ cont(i+3, 128, 191) /\ utf8Valid(s, i + 4)
         ELSE FALSE

RECURSIVE emittable(_)
\* Whether encoder.Encode accepts the tree: every scalar's text is valid UTF-8.
emittable(node) ==
    IF node.kind = "scalar" THEN utf8Valid(node.value, 1)
    ELSE IF node.kind = "mapping" THEN \A i \in 1..Len(node.content) : emittable(node.content[i].val)
    ELSE IF node.kind = "sequence" THEN \A i \in 1..Len(node.content) : emittable(node.content[i])
    ELSE IF node.kind = "document" THEN \A i \in 1..Len(node.content) : emittable(node.content[i])
    ELSE TRUE

----------------------------------------------------------------------------
\* Errors returned by the entry points.

ErrEmpty == [stage |-> "input", msg |-> "empty input"]
ErrParse == [stage |-> "parse", msg |-> "failed to parse YAML"]
ErrInvalidDocument == [stage |-> "validate", msg |-> "invalid YAML document"]
ErrExpectedMapping == [stage |-> "validate", msg |-> "expected YAML mapping"]
ErrNotSecret == [stage |-> "validate", msg |-> "not a Secret resource"]
ErrTransform(key) == [stage |-> "transform", msg |-> "failed to transform key", key |-> key, cause |-> "invalid base64"]
ErrMarshal == [stage |-> "serialize", msg |-> "failed to marshal YAML"]

----------------------------------------------------------------------------
\* Package secret.

\* yaml.Unmarshal(input, &doc): a parse error, or the document node; input
\* without document content (blank, comments only) leaves doc the zero Node.
Unmarshal(in) ==
    IF in.kind = "garbage" THEN [err |-> ErrParse, doc |-> NoDoc]
    ELSE IF in.kind = "yaml" THEN [err |-> NoErr, doc |-> Document(in.root)]
    ELSE [err |-> NoErr, doc |-> NoDoc]

\* A mutant of validateSecret: the kind value is not compared.
validateSecretAnyKind(d) ==
    IF d.kind # "document" \/ Len(d.content) = 0 THEN ErrInvalidDocument
    ELSE IF d.content[1].kind # "mapping" THEN ErrExpectedMapping
    ELSE IF findField(d.content[1], "kind") = NilNode THEN ErrNotSecret
    ELSE NoErr

\* A mutant of validateSecret: a document without content is let through.
validateSecretNoContentCheck(d) ==
    IF d.kind # "document" \/ Len(d.content) = 0 THEN NoErr
    ELSE validateSecretAnyKind(d)

\* A mutant of validateSecret: every rejection of a document with content
\* is reported as "not a Secret resource".
validateSecretOneError(d) ==
    IF d.kind # "document" \/ Len(d.content) = 0 THEN ErrInvalidDocument
    ELSE IF findField(d.content[1], "kind") = NilNode
            \/ Value(findField(d.content[1], "kind")) # SecretText
         THEN ErrNotSecret
         ELSE NoErr

\* validateSecret: NoErr iff the document has a mapping root whose "kind"
\* field has Value "Secret" (a non-scalar node has Value "").
validateSecret(d) ==
    IF d.kind # "document" \/ Len(d.content) = 0 THEN ErrInvalidDocument
    ELSE LET root == d.content[1] IN
         IF root.kind # "mapping" THEN ErrExpectedMapping
         ELSE LET kind == findField(root, "kind") IN
              IF kind = NilNode \/ Value(kind) # SecretText
              THEN ErrNotSecret
              ELSE NoErr

\* The transform argument of transformData, by name.
applyTransform(transform, s) ==
    IF transform = "decodeBase64" THEN decodeBase64(s) ELSE encodeBase64(s)

\* The style transformData gives a transformed scalar.
styleFor(transformed) ==
    IF containsNewline(transformed) THEN "Literal" ELSE "Plain"

RECURSIVE transformFromBestEffort(_, _, _, _)
\* A mutant of transformFrom: a value that fails to transform is skipped
\* and the loop goes on.
transformFromBestEffort(content, i, transform, applied) ==
    IF i > Len(content) THEN [err |-> NoErr, content |-> content, calls |-> applied]
    ELSE LET valueNode == content[i].val IN
         IF valueNode.kind = "scalar" THEN
             LET r == applyTransform(transform, valueNode.value)
                 now == Append(applied, [key |-> content[i].key, arg |-> valueNode.value])
             IN IF ~r.ok
                THEN transformFromBestEffort(content, i + 1, transform, now)
                ELSE transformFromBestEffort(
                        [content EXCEPT ![i].val = Scalar(r.val, styleFor(r.val))],
                        i + 1, transform, now)
         ELSE transformFromBestEffort(content, i + 1, transform, applied)

RECURSIVE transformFromReportLast(_, _, _, _)
\* A mutant of transformFrom: the loop goes through every pair and the
\* error of the last value that failed is the one returned.
transformFromReportLast(content, i, transform, applied) ==
    IF i > Len(content) THEN [err |-> NoErr, content |-> content, calls |-> applied]
    ELSE LET valueNode == content[i].val IN
         IF valueNode.kind = "scalar" THEN
             LET r == applyTransform(transform, valueNode.value)
                 now == Append(applied, [key |-> content[i].key, arg |-> valueNode.value])
             IN IF ~r.ok
                THEN LET rest == transformFromReportLast(content, i + 1, transform, now)
                     IN IF rest.err # NoErr THEN rest
                        ELSE [err |-> ErrTransform(content[i].key), content |-> rest.content,
                              calls |-> rest.calls]
                ELSE transformFromReportLast(
                        [content EXCEPT ![i].val = Scalar(r.val, styleFor(r.val))],
                        i + 1, transform, now)
         ELSE transformFromReportLast(content, i + 1, transform, applied)

RECURSIVE transformFromStopAtNonScalar(_, _, _, _)
\* A mutant of transformFrom: a value that is not a scalar ends the loop
\* (break instead of falling through to the next pair).
transformFromStopAtNonScalar(content, i, transform, applied) ==
    IF i > Len(content) THEN [err |-> NoErr, content |-> content, calls |-> applied]
    ELSE LET valueNode == content[i].val IN
         IF valueNode.kind = "scalar" THEN
             LET r == applyTransform(transform, valueNode.value)
                 now == Append(applied, [key |-> content[i].key, arg |-> valueNode.value])
             IN IF ~r.ok
                THEN [err |-> ErrTransform(content[i].key), content |-> content, calls |-> now]
                ELSE transformFromStopAtNonScalar(
                        [content EXCEPT ![i].val = Scalar(r.val, styleFor(r.val))],
                        i + 1, transform, now)
         ELSE [err |-> NoErr, content |-> content, calls |-> applied]

RECURSIVE transformFromTwice(_, _, _, _)
\* A mutant of transformFrom: the index is not advanced past a value that
\* was transformed until it has been transformed a second time.
transformFromTwice(content, i, transform, applied) ==
    IF i > Len(content) THEN [err |-> NoErr, content |-> content, calls |-> applied]
    ELSE LET valueNode == content[i].val IN
         IF valueNode.kind = "scalar" THEN
             LET r == applyTransform(transform, valueNode.value)
                 r2 == applyTransform(transform, r.val)
                 now == applied \o << [key |-> content[i].key, arg |-> valueNode.value],
                                      [key |-> content[i].key, arg |-> r.val] >>
             IN IF ~r.ok \/ ~r2.ok
                THEN [err |-> ErrTransform(content[i].key), content |-> content, calls |-> now]
                ELSE transformFromTwice(
                        [content EXCEPT ![i].val = Scalar(r2.val, styleFor(r2.val))],
                        i + 1, transform, now)
         ELSE transformFromTwice(content, i + 1, transform, applied)

RECURSIVE transformFrom(_, _, _, _)
\* The loop of transformData from pair i on: content is the data mapping's
\* content as mutated so far, applied the codec applications so far.
transformFrom(content, i, transform, applied) ==
    IF i > Len(content) THEN [err |-> NoErr, content |-> content, calls |-> applied]
    ELSE LET valueNode == content[i].val IN
         IF valueNode.kind = "scalar" THEN
             LET r == applyTransform(transform, valueNode.value)
                 now == Append(applied, [key |-> content[i].key, arg |-> valueNode.value])
             IN IF ~r.ok
                THEN [err |-> ErrTransform(content[i].key), content |-> content, calls |-> now]
                ELSE transformFrom(
                        [content EXCEPT ![i].val = Scalar(r.val, styleFor(r.val))],
                        i + 1, transform, now)
         ELSE transformFrom(content, i + 1, transform, applied)

\* A mutant of IsSecret: a "kind" field of any value is taken for a Secret.
IsSecretAnyKind(in) ==
    IF in.kind = "empty" THEN FALSE
    ELSE LET u == Unmarshal(in) IN
         IF u.err # NoErr THEN FALSE
         ELSE IF u.doc.kind # "document" \/ Len(u.doc.content) = 0 THEN FALSE
         ELSE IF u.doc.content[1].kind # "mapping" THEN FALSE
         ELSE findField(u.doc.content[1], "kind") # NilNode

\* IsSecret: false on empty input, on a parse error, on a document without
\* content, on a root that is not a mapping; else whether the root's "kind"
\* field is there and has Value "Secret".
IsSecret(in) ==
    IF in.kind = "empty" THEN FALSE
    ELSE LET u == Unmarshal(in) IN
         IF u.err # NoErr THEN FALSE
         ELSE IF u.doc.kind # "document" \/ Len(u.doc.content) = 0 THEN FALSE
         ELSE LET root == u.doc.content[1] IN
              IF root.kind # "mapping" THEN FALSE
              ELSE LET kind == findField(root, "kind") IN
                   kind # NilNode /\ Value(kind) = SecretText

\* transformData with the section's key as a parameter: the error, the
\* document as mutated in place, and the codec applications made.
transformSection(d, section, transform) ==
    LET root == d.content[1]
        at == findFieldIndex(root, section)
        dataNode == findField(root, section)
    IN IF dataNode = NilNode \/ dataNode.kind # "mapping"
       THEN [err |-> NoErr, doc |-> d, calls |-> <<>>]
       ELSE LET r == transformFrom(dataNode.content, 1, transform, <<>>)
            IN [err |-> r.err,
                doc |-> [d EXCEPT !.content[1].content[at].val.content = r.content],
                calls |-> r.calls]

\* A mutant of transformData: every section whose key ends in "data" is
\* transformed, stringData too.
transformDataAndStringData(d, transform) ==
    LET a == transformSection(d, "data", transform) IN
    IF a.err # NoErr THEN a
    ELSE LET b == transformSection(a.doc, "stringData", transform)
         IN [err |-> b.err, doc |-> b.doc, calls |-> a.calls \o b.calls]

\* A mutant of transformData: a data mapping without pairs is taken for
\* "nothing there" and replaced by a null scalar.
transformDataDropEmpty(d, transform) ==
    LET root == d.content[1]
        at == findFieldIndex(root, "data")
    IN IF at # 0 /\ findField(root, "data") = Mapping(<<>>)
       THEN [err |-> NoErr,
             doc |-> [d EXCEPT !.content[1].content[at].val = Scalar(<<>>, "Plain")],
             calls |-> <<>>]
       ELSE transformSection(d, "data", transform)

\* transformData: the section is the value of the root's "data" field.
transformData(d, transform) == transformSection(d, "data", transform)

\* marshalWithIndent: the emitted text, carried as the tree it denotes, or
\* the encoder's error.
marshalWithIndent(d) ==
    IF emittable(d)
    THEN [err |-> NoErr, out |-> [kind |-> "yaml", root |-> d.content[1]]]
    ELSE [err |-> ErrMarshal, out |-> Nil]

\* The codec each entry point hands to transformData.
transformOf(o) == IF o = "reveal" THEN "decodeBase64" ELSE "encodeBase64"

\* An entry point from call to return: each stage's error is returned at
\* once, with nil bytes.
RunEntryPoint(o, in) ==
    IF in.kind = "empty" THEN [err |-> ErrEmpty, out |-> Nil]
    ELSE LET u == Unmarshal(in) IN
         IF u.err # NoErr THEN [err |-> u.err, out |-> Nil]
         ELSE LET v == validateSecret(u.doc) IN
              IF v # NoErr THEN [err |-> v, out |-> Nil]
              ELSE LET t == transformData(u.doc, transformOf(o)) IN
                   IF t.err # NoErr THEN [err |-> t.err, out |-> Nil]
                   ELSE marshalWithIndent(t.doc)

DecodeSecretData(in) == RunEntryPoint("reveal", in)
EncodeSecretData(in) == RunEntryPoint("conceal", in)

----------------------------------------------------------------------------
\* The inputs an invocation is started on.

Ops == {"reveal", "conceal"}

\* Plaintexts: "", "a", "a\n", "\r", the byte 0xFF, "aaa".
PlainSamples == { <<>>, <<97>>, <<97, 10>>, <<13>>, <<255>>, <<97, 97, 97>> }

\* Their standard encodings.
EncodedSamples == { encodeBase64(p).val : p \in PlainSamples }

\* Texts the decoder accepts that the encoder never produces: "YR==" (non-zero
\* trailing bits) and "YQ=\n=" (a line break inside the text).
LenientSamples == { <<89, 82, 61, 61>>, <<89, 81, 61, 10, 61>> }

\* The scalar texts of generated documents: the parser only yields valid UTF-8.
Texts == { t \in PlainSamples \cup EncodedSamples \cup LenientSamples : utf8Valid(t, 1) }

Styles == {"Plain", "Literal"}

\* The texts that generated documents also hold in literal block style:
\* those with a line feed, and "YQ==" and "YR==".
LiteralTexts ==
    { t \in Texts : containsNewline(t) } \cup { <<89, 81, 61, 61>>, <<89, 82, 61, 61>> }

\* The values of a generated data mapping: every text as a plain scalar,
\* the literal texts as literal scalars too, and one nested mapping.
DataValues ==
    { Scalar(t, "Plain") : t \in Texts }
    \cup { Scalar(t, "Literal") : t \in LiteralTexts }
    \cup { Mapping(<<Pair("nested", Scalar(<<89, 81, 61, 61>>, "Plain"))>>) }

DataKeys == <<"username", "password", "token", "extra">>

\* The data mappings of n pairs, keys in the fixed order of DataKeys.
RECURSIVE DataContents(_)
DataContents(n) ==
    IF n = 0 THEN { <<>> }
    ELSE { Append(c, Pair(DataKeys[n], v)) : c \in DataContents(n - 1), v \in DataValues }

DataMappings == UNION { { Mapping(c) : c \in DataContents(n) } : n \in 0..MaxData }

StringData == Mapping(<<Pair("plain", Scalar(<<89, 81, 61, 61>>, "Plain"))>>)

\* A Secret with type, data and stringData, for every generated data mapping.
DataRoots ==
    { Mapping(<< Pair("kind", Scalar(SecretText, "Plain")),
                 Pair("type", Scalar(<<79, 112, 97, 113, 117, 101>>, "Plain")),
                 Pair("data", m),
                 Pair("stringData", StringData) >>) : m \in DataMappings }

\* The other shapes of a root mapping: kind absent, Secret, ConfigMap or a
\* non-scalar; data absent, a scalar, a sequence, empty, or one pair;
\* stringData absent or present; kind first or last.
KindOptions ==
    { <<>>,
      <<Pair("kind", Scalar(SecretText, "Plain"))>>,
      <<Pair("kind", Scalar(SecretText, "DoubleQuoted"))>>,
      <<Pair("kind", Scalar(ConfigMapText, "Plain"))>>,
      <<Pair("kind", Sequence(<<Scalar(SecretText, "Plain")>>))>> }

DataOptions ==
    { <<>>,
      <<Pair("data", Scalar(<<>>, "Plain"))>>,
      <<Pair("data", Sequence(<<Scalar(<<89, 81, 61, 61>>, "Plain")>>))>>,
      <<Pair("data", Mapping(<<>>))>>,
      <<Pair("data", Mapping(<<Pair("username", Scalar(<<89, 81, 61, 61>>, "Plain"))>>))>>,
      <<Pair("data", Mapping(<<Pair("username", Scalar(<<97, 10>>, "Literal"))>>))>>,
      <<Pair("data", Mapping(<< Pair("username", Scalar(<<89, 81, 61, 61>>, "Plain")),
                                Pair("password", Mapping(<<Pair("nested", Scalar(<<89, 81, 61, 61>>, "Plain"))>>)),
                                Pair("token", Scalar(<<89, 81, 111, 61>>, "Plain")) >>))>>,
      <<Pair("data", Mapping(<< Pair("username", Scalar(<<89, 81, 61, 61>>, "Plain")),
                                Pair("password", Sequence(<<Scalar(<<33>>, "Plain")>>)),
                                Pair("token", Scalar(<<89, 81, 111, 61>>, "Plain")) >>))>>,
      <<Pair("data", Mapping(<< Pair("username", Scalar(<<89, 81, 61, 61>>, "Plain")),
                                Pair("password", Scalar(<<33>>, "Plain")),
                                Pair("token", Scalar(<<97>>, "Plain")) >>))>> }

StringDataOptions == { <<>>, <<Pair("stringData", StringData)>> }

ShapeRoots ==
    { Mapping(k \o d \o sd) : k \in KindOptions, d \in DataOptions, sd \in StringDataOptions }
    \cup { Mapping(sd \o d \o k) : k \in KindOptions, d \in DataOptions, sd \in StringDataOptions }

\* Roots that are not mappings.
OtherRoots == { Sequence(<<Scalar(<<97>>, "Plain")>>), Scalar(SecretText, "Plain") }

Roots == DataRoots \cup ShapeRoots \cup OtherRoots

\* "" (zero length), text that does not parse, text without document
\* content (blank or comments only), and the text of every root.
Inputs ==
    { [kind |-> "empty"], [kind |-> "garbage"], [kind |-> "blank"] }
    \cup { [kind |-> "yaml", root |-> r] : r \in Roots }

----------------------------------------------------------------------------
\* The state machine: one invocation of an entry point, stage by stage.

Init ==
    /\ op \in Ops
    /\ input \in Inputs
    /\ pc = "start"
    /\ doc = NoDoc
    /\ err = NoErr
    /\ output = Nil
    /\ stages = <<>>
    /\ calls = <<>>
    /\ prev = NoPrev
    /\ chain = 0
    /\ EditorIdle /\ CliIdle /\ ConcIdle /\ ProbeIdle

\* A mutant of afterStage: a failed stage does not return.
afterStageNoReturn(e, next) == next

\* Where a stage's failure sends the invocation.
afterStage(e, next) == IF e # NoErr THEN "done" ELSE next

\* if len(input) == 0 { return nil, fmt.Errorf("empty input") }
CheckInput ==
    /\ pc = "start"
    /\ IF input.kind = "empty"
       THEN err' = ErrEmpty /\ pc' = "done"
       ELSE err' = err /\ pc' = "checked"
    /\ UNCHANGED <<op, input, doc, output, stages, calls, prev, chain>>
    /\ UNCHANGED <<editorVars, cliVars, concVars, probeVars>>

\* yaml.Unmarshal(input, &doc)
Parse ==
    /\ pc = "checked"
    /\ LET r == Unmarshal(input) IN
        /\ doc' = r.doc
        /\ err' = r.err
        /\ pc' = afterStage(r.err, "parsed")
    /\ stages' = Append(stages, "parse")
    /\ UNCHANGED <<op, input, output, calls, prev, chain>>
    /\ UNCHANGED <<editorVars, cliVars, concVars, probeVars>>

\* validateSecret(&doc)
Validate ==
    /\ pc = "parsed"
    /\ LET e == validateSecret(doc) IN
        /\ err' = e
        /\ pc' = afterStage(e, "validated")
    /\ stages' = Append(stages, "validate")
    /\ UNCHANGED <<op, input, doc, output, calls, prev, chain>>
    /\ UNCHANGED <<editorVars, cliVars, concVars, probeVars>>

\* transformData(&doc, decodeBase64) or transformData(&doc, encodeBase64)
Transform ==
    /\ pc = "validated"
    /\ LET r == transformData(doc, transformOf(op)) IN
        /\ doc' = r.doc
        /\ calls' = r.calls
        /\ err' = r.err
        /\ pc' = afterStage(r.err, "transformed")
    /\ stages' = Append(stages, "transform")
    /\ UNCHANGED <<op, input, output, prev, chain>>
    /\ UNCHANGED <<editorVars, cliVars, concVars, probeVars>>

\* marshalWithIndent(&doc), and the return
Serialize ==
    /\ pc = "transformed"
    /\ LET r == marshalWithIndent(doc) IN
        /\ output' = r.out
        /\ err' = r.err
    /\ pc' = "done"
    /\ stages' = Append(stages, "serialize")
    /\ UNCHANGED <<op, input, doc, calls, prev, chain>>
    /\ UNCHANGED <<editorVars, cliVars, concVars, probeVars>>

\* A caller hands the output of a successful invocation to an entry point
\* (TestRoundTrip; run's decode, then encode of the temp file).
Feed ==
    /\ pc = "done"
    /\ err = NoErr
    /\ chain < MaxChain
    /\ \E o \in Ops : op' = o
    /\ input' = output
    /\ prev' = [op |-> op, input |-> input, output |-> output, calls |-> calls]
    /\ chain' = chain + 1
    /\ pc' = "start"
    /\ doc' = NoDoc
    /\ err' = NoErr
    /\ output' = Nil
    /\ stages' = <<>>
    /\ calls' = <<>>
    /\ UNCHANGED <<editorVars, cliVars, concVars, probeVars>>

Next == CheckInput \/ Parse \/ Validate \/ Transform \/ Serialize \/ Feed

Spec == Init /\ [][Next]_vars

----------------------------------------------------------------------------
\* Package editor: SelectEditor under a changing environment.

\* The editor names that flags and environment variables hold; "" is an
\* unset variable or an absent flag.
EditorNames == {"", "vi", "vim", "nano", "emacs"}

\* A mutant of SelectEditor: $VISUAL is consulted before $EDITOR.
SelectEditorVisualFirst(flagValue, e) ==
    IF flagValue # "" THEN flagValue
    ELSE IF e.VISUAL # "" THEN e.VISUAL
    ELSE IF e.EDITOR # "" THEN e.EDITOR
    ELSE "vi"

\* SelectEditor: the flag, else $EDITOR, else $VISUAL, else "vi".
SelectEditor(flagValue, e) ==
    IF flagValue # "" THEN flagValue
    ELSE IF e.EDITOR # "" THEN e.EDITOR
    ELSE IF e.VISUAL # "" THEN e.VISUAL
    ELSE "vi"

EditorInit ==
    /\ env \in [EDITOR : EditorNames, VISUAL : EditorNames]
    /\ selected = NotSelected
    /\ PipeIdle /\ CliIdle /\ ConcIdle /\ ProbeIdle

\* os.Setenv("EDITOR", v)
SetenvEditor ==
    /\ \E v \in EditorNames : env' = [env EXCEPT !.EDITOR = v]
    /\ UNCHANGED <<selected, pipeVars, cliVars, concVars, probeVars>>

\* os.Setenv("VISUAL", v)
SetenvVisual ==
    /\ \E v \in EditorNames : env' = [env EXCEPT !.VISUAL = v]
    /\ UNCHANGED <<selected, pipeVars, cliVars, concVars, probeVars>>

\* got := SelectEditor(flagValue)
CallSelectEditor ==
    /\ \E f \in EditorNames :
          selected' = [flagValue |-> f, env |-> env, result |-> SelectEditor(f, env)]
    /\ UNCHANGED <<env, pipeVars, cliVars, concVars, probeVars>>

EditorNext == SetenvEditor \/ SetenvVisual \/ CallSelectEditor

SpecEditor == EditorInit /\ [][EditorNext]_vars

----------------------------------------------------------------------------
\* The command: one run of swk, step by step (package main).

\* A path at which there is no file.
Absent == [kind |-> "absent"]
\* A file of zero length.
EmptyFile == [kind |-> "empty"]
\* The nil cleanup function, and the one that removes the temp file.
NoCleanup == "nil"
RemoveTemp == "os.Remove(tmpPath)"

\* The text of a manifest of the given kind with one data entry.
manifest(kindText, value) ==
    [kind |-> "yaml",
     root |-> Mapping(<< Pair("kind", Scalar(kindText, "Plain")),
                         Pair("data", Mapping(<<Pair("password", value)>>)) >>)]

\* The original files of a run: a Secret holding "YQ==", one holding "!"
\* (not base64), one holding "/w==" (the byte 0xFF, which cannot be
\* emitted), a ConfigMap, text that does not parse, an empty file.
CliOriginals ==
    { manifest(SecretText, Scalar(<<89, 81, 61, 61>>, "Plain")),
      manifest(SecretText, Scalar(<<33>>, "Plain")),
      manifest(SecretText, Scalar(<<47, 119, 61, 61>>, "Plain")),
      manifest(ConfigMapText, Scalar(<<89, 81, 61, 61>>, "Plain")),
      [kind |-> "garbage"],
      EmptyFile }

\* What the editor may leave at the temp path: the file as it was, a Secret
\* with a new value ("b", or "a\nb" in literal style), a ConfigMap, text
\* that does not parse, an empty file, or no file.
Edits(before) ==
    { before,
      manifest(SecretText, Scalar(<<98>>, "Plain")),
      manifest(SecretText, Scalar(<<97, 10, 98>>, "Literal")),
      manifest(ConfigMapText, Scalar(<<98>>, "Plain")),
      [kind |-> "garbage"],
      EmptyFile,
      Absent }

\* The argument lists: no file, a file, a file and -editor.
CliArgs ==
    { [editor |-> "", file |-> ""],
      [editor |-> "", file |-> "secret.yaml"],
      [editor |-> "nano", file |-> "secret.yaml"] }

CliEnvs == { [EDITOR |-> "", VISUAL |-> ""], [EDITOR |-> "vim", VISUAL |-> "emacs"] }

\* The error a step of the run returns.
ErrCli(step, cause) == [stage |-> "cli", step |-> step, cause |-> cause]

CliInit ==
    /\ fs \in [original : CliOriginals \cup {Absent}, tmp : {Absent}]
    /\ run \in [pc : {"parseArgs"}, args : CliArgs, data : {Nil}, decoded : {Nil},
                tmpFile : {""}, cleanup : {NoCleanup}, deferred : {FALSE},
                editorCmd : {""}, edited : {Nil}, encoded : {Nil}, err : {NoErr}]
    /\ trace = [steps |-> <<>>, writes |-> <<>>, original |-> fs.original,
                created |-> FALSE, removed |-> FALSE]
    /\ env \in CliEnvs
    /\ selected = NotSelected
    /\ PipeIdle /\ ConcIdle /\ ProbeIdle

\* A mutant of orReturn: the error is not looked at.
orReturnUnchecked(e, next, deferred) == next

\* if err != nil { return ... }: where a step's error sends the run.  Once
\* cleanup is deferred, it runs before run returns.
orReturn(e, next, deferred) ==
    IF e = NoErr THEN next
    ELSE IF deferred THEN "cleanup" ELSE "returned"

\* A mutant of abandonTemp: the temp file is left where it is.
abandonTempLeaveFile(f) == f

\* tmpFile.Close(); os.Remove(tmpPath) / os.Remove(tmpPath): the failure
\* branches of processSecretFile give the temp file up.
abandonTemp(f) == [f EXCEPT !.tmp = Absent]

\* The step, with its success, joins the history.
logged(step, e) == [trace EXCEPT !.steps = Append(@, [step |-> step, ok |-> e = NoErr])]

\* parseArgs(args)
ParseArgs ==
    /\ run.pc = "parseArgs"
    /\ LET e == IF run.args.file = "" THEN ErrCli("parseArgs", "usage") ELSE NoErr IN
        run' = [run EXCEPT !.err = e, !.pc = orReturn(e, "readOriginal", run.deferred)]
    /\ UNCHANGED <<fs, trace, pipeVars, editorVars, concVars, probeVars>>

\* processSecretFile: os.ReadFile(filePath)
ReadOriginal ==
    /\ run.pc = "readOriginal"
    /\ \E ok \in BOOLEAN :
        /\ ok => fs.original # Absent
        /\ LET e == IF ok THEN NoErr ELSE ErrCli("read", "os.ReadFile") IN
            /\ run' = [run EXCEPT !.data = IF ok THEN fs.original ELSE Nil,
                                  !.err = e,
                                  !.pc = orReturn(e, "decode", run.deferred)]
            /\ trace' = logged("read", e)
    /\ UNCHANGED <<fs, pipeVars, editorVars, concVars, probeVars>>

\* processSecretFile: secret.DecodeSecretData(data)
Decode ==
    /\ run.pc = "decode"
    /\ LET r == DecodeSecretData(run.data)
           e == IF r.err = NoErr THEN NoErr ELSE ErrCli("decode", r.err)
       IN /\ run' = [run EXCEPT !.decoded = r.out,
                                !.err = e,
                                !.pc = orReturn(e, "createTemp", run.deferred)]
          /\ trace' = logged("decode", e)
    /\ UNCHANGED <<fs, pipeVars, editorVars, concVars, probeVars>>

\* processSecretFile: os.CreateTemp("", "swk-*.yaml")
CreateTemp ==
    /\ run.pc = "createTemp"
    /\ \E ok \in BOOLEAN :
        LET e == IF ok THEN NoErr ELSE ErrCli("createTemp", "os.CreateTemp") IN
        /\ fs' = IF ok THEN [fs EXCEPT !.tmp = EmptyFile] ELSE fs
        /\ run' = [run EXCEPT !.err = e, !.pc = orReturn(e, "writeTemp", run.deferred)]
        /\ trace' = [logged("createTemp", e) EXCEPT !.created = @ \/ ok]
    /\ UNCHANGED <<pipeVars, editorVars, concVars, probeVars>>

\* processSecretFile: tmpFile.Write(decoded), and on failure Close, Remove
\* and return "", nil, err
WriteTemp ==
    /\ run.pc = "writeTemp"
    /\ \E ok \in BOOLEAN :
        LET e == IF ok THEN NoErr ELSE ErrCli("writeTemp", "tmpFile.Write") IN
        /\ fs' = IF ok THEN [fs EXCEPT !.tmp = run.decoded] ELSE abandonTemp(fs)
        /\ run' = [run EXCEPT !.err = e, !.pc = orReturn(e, "closeTemp", run.deferred)]
        /\ trace' = logged("writeTemp", e)
    /\ UNCHANGED <<pipeVars, editorVars, concVars, probeVars>>

\* processSecretFile: tmpFile.Close(), and on failure Remove and return
\* "", nil, err; on success return tmpPath, cleanup, nil
CloseTemp ==
    /\ run.pc = "closeTemp"
    /\ \E ok \in BOOLEAN :
        LET e == IF ok THEN NoErr ELSE ErrCli("closeTemp", "tmpFile.Close") IN
        /\ fs' = IF ok THEN fs ELSE abandonTemp(fs)
        /\ run' = [run EXCEPT !.tmpFile = IF ok THEN "tmp" ELSE "",
                              !.cleanup = IF ok THEN RemoveTemp ELSE NoCleanup,
                              !.err = e,
                              !.pc = orReturn(e, "defer", run.deferred)]
        /\ trace' = logged("closeTemp", e)
    /\ UNCHANGED <<pipeVars, editorVars, concVars, probeVars>>

\* run: defer cleanup()
Defer ==
    /\ run.pc = "defer"
    /\ run' = [run EXCEPT !.deferred = TRUE, !.pc = "launch"]
    /\ UNCHANGED <<fs, trace, pipeVars, editorVars, concVars, probeVars>>

\* run: editor.SelectEditor(editorFlag), editor.LaunchEditor(editorCmd,
\* tmpFile).  The editor process does what it wants with the temp file and
\* exits with or without an error.
LaunchEditor ==
    /\ run.pc = "launch"
    /\ \E ok \in BOOLEAN, after \in Edits(fs.tmp) :
        LET e == IF ok THEN NoErr ELSE ErrCli("editor", "cmd.Run") IN
        /\ fs' = [fs EXCEPT !.tmp = after]
        /\ run' = [run EXCEPT !.editorCmd = SelectEditor(run.args.editor, env),
                              !.err = e,
                              !.pc = orReturn(e, "readEdited", run.deferred)]
        /\ trace' = logged("editor", e)
    /\ UNCHANGED <<pipeVars, editorVars, concVars, probeVars>>

\* finalizeSecretFile: os.ReadFile(tmpPath)
ReadEdited ==
    /\ run.pc = "readEdited"
    /\ \E ok \in BOOLEAN :
        /\ ok => fs.tmp # Absent
        /\ LET e == IF ok THEN NoErr ELSE ErrCli("readEdited", "os.ReadFile") IN
            /\ run' = [run EXCEPT !.edited = IF ok THEN fs.tmp ELSE Nil,
                                  !.err = e,
                                  !.pc = orReturn(e, "encode", run.deferred)]
            /\ trace' = logged("readEdited", e)
    /\ UNCHANGED <<fs, pipeVars, editorVars, concVars, probeVars>>

\* finalizeSecretFile: secret.EncodeSecretData(edited)
Encode ==
    /\ run.pc = "encode"
    /\ LET r == EncodeSecretData(run.edited)
           e == IF r.err = NoErr THEN NoErr ELSE ErrCli("encode", r.err)
       IN /\ run' = [run EXCEPT !.encoded = r.out,
                                !.err = e,
                                !.pc = orReturn(e, "writeOriginal", run.deferred)]
          /\ trace' = logged("encode", e)
    /\ UNCHANGED <<fs, pipeVars, editorVars, concVars, probeVars>>

\* finalizeSecretFile: os.WriteFile(originalPath, encoded, 0644).  A failed
\* write leaves the file as it was or truncated.
WriteOriginal ==
    /\ run.pc = "writeOriginal"
    /\ \E outcome \in {"written", "untouched", "truncated"} :
        LET e == IF outcome = "written" THEN NoErr ELSE ErrCli("writeOriginal", "os.WriteFile") IN
        /\ fs' = [fs EXCEPT !.original = CASE outcome = "written" -> run.encoded
                                           [] outcome = "truncated" -> EmptyFile
                                           [] OTHER -> @]
        /\ run' = [run EXCEPT !.err = e, !.pc = orReturn(e, "cleanup", run.deferred)]
        /\ trace' = [logged("writeOriginal", e) EXCEPT !.writes = Append(@, run.encoded)]
    /\ UNCHANGED <<pipeVars, editorVars, concVars, probeVars>>

\* The deferred cleanup(): os.Remove(tmpPath), then run returns
Cleanup ==
    /\ run.pc = "cleanup"
    /\ fs' = [fs EXCEPT !.tmp = Absent]
    /\ run' = [run EXCEPT !.pc = "returned"]
    /\ trace' = [trace EXCEPT !.removed = TRUE]
    /\ UNCHANGED <<pipeVars, editorVars, concVars, probeVars>>

CliNext ==
    \/ ParseArgs \/ ReadOriginal \/ Decode \/ CreateTemp \/ WriteTemp \/ CloseTemp
    \/ Defer \/ LaunchEditor \/ ReadEdited \/ Encode \/ WriteOriginal \/ Cleanup

SpecCli == CliInit /\ [][CliNext]_vars

----------------------------------------------------------------------------
\* Concurrent invocations: goroutines that each call an entry point, the
\* stages and the writes to the encoder's buffer interleaving freely.

\* The goroutines.
Procs == {1, 2}

\* The calls a goroutine makes: either entry point, on a Secret holding
\* "YQ==", "!" or "/w==", a ConfigMap, or the empty text.
ConcInputs ==
    { manifest(SecretText, Scalar(<<89, 81, 61, 61>>, "Plain")),
      manifest(SecretText, Scalar(<<33>>, "Plain")),
      manifest(SecretText, Scalar(<<47, 119, 61, 61>>, "Plain")),
      manifest(ConfigMapText, Scalar(<<89, 81, 61, 61>>, "Plain")),
      EmptyFile }

\* An invocation at its call: the locals are zero values.
called(o, in) ==
    [op |-> o, input |-> in, pc |-> "start", doc |-> NoDoc, err |-> NoErr,
     output |-> Nil, pending |-> <<>>, overlapped |-> FALSE]

\* A mutant of bufOf: the buffer is one package-level variable.
bufOfShared(p) == 1

\* var buf []byte: the buffer is a local of the invocation's marshalWithIndent.
bufOf(p) == p

\* What the encoder hands to Write, piece by piece: the root's pairs.
chunks(d) == d.content[1].content

ConcInit ==
    /\ inv \in [Procs -> { called(o, in) : o \in Ops, in \in ConcInputs }]
    /\ bufs = [p \in Procs |-> <<>>]
    /\ PipeIdle /\ EditorIdle /\ CliIdle /\ ProbeIdle

\* if len(input) == 0 { return nil, fmt.Errorf("empty input") }
CheckInputAt(p) ==
    /\ inv[p].pc = "start"
    /\ inv' = [inv EXCEPT ![p] = IF @.input.kind = "empty"
                                 THEN [@ EXCEPT !.err = ErrEmpty, !.pc = "done"]
                                 ELSE [@ EXCEPT !.pc = "checked"]]
    /\ UNCHANGED <<bufs, pipeVars, editorVars, cliVars, probeVars>>

\* yaml.Unmarshal(input, &doc)
ParseAt(p) ==
    /\ inv[p].pc = "checked"
    /\ LET r == Unmarshal(inv[p].input) IN
        inv' = [inv EXCEPT ![p] = [@ EXCEPT !.doc = r.doc, !.err = r.err,
                                            !.pc = afterStage(r.err, "parsed")]]
    /\ UNCHANGED <<bufs, pipeVars, editorVars, cliVars, probeVars>>

\* validateSecret(&doc)
ValidateAt(p) ==
    /\ inv[p].pc = "parsed"
    /\ LET e == validateSecret(inv[p].doc) IN
        inv' = [inv EXCEPT ![p] = [@ EXCEPT !.err = e, !.pc = afterStage(e, "validated")]]
    /\ UNCHANGED <<bufs, pipeVars, editorVars, cliVars, probeVars>>

\* transformData(&doc, decodeBase64) or transformData(&doc, encodeBase64)
TransformAt(p) ==
    /\ inv[p].pc = "validated"
    /\ LET r == transformData(inv[p].doc, transformOf(inv[p].op)) IN
        inv' = [inv EXCEPT ![p] = [@ EXCEPT !.doc = r.doc, !.err = r.err,
                                            !.pc = afterStage(r.err, "transformed")]]
    /\ UNCHANGED <<bufs, pipeVars, editorVars, cliVars, probeVars>>

\* marshalWithIndent: var buf []byte; yaml.NewEncoder(&bytesWriter{buf: &buf})
NewEncoderAt(p) ==
    /\ inv[p].pc = "transformed"
    /\ bufs' = [bufs EXCEPT ![bufOf(p)] = <<>>]
    /\ inv' = [inv EXCEPT ![p] = [@ EXCEPT !.pending = chunks(inv[p].doc), !.pc = "encoding"]]
    /\ UNCHANGED <<pipeVars, editorVars, cliVars, probeVars>>

\* bytesWriter.Write: *w.buf = append(*w.buf, p...)
WriteAt(p) ==
    /\ inv[p].pc = "encoding"
    /\ inv[p].pending # <<>>
    /\ bufs' = [bufs EXCEPT ![bufOf(p)] = Append(@, Head(inv[p].pending))]
    /\ inv' = [inv EXCEPT ![p] =
                 [@ EXCEPT !.pending = Tail(@),
                           !.overlapped = @ \/ \E q \in Procs \ {p} :
                                                   inv[q].pc = "encoding" /\ bufs[bufOf(q)] # <<>>]]
    /\ UNCHANGED <<pipeVars, editorVars, cliVars, probeVars>>

\* marshalWithIndent returns nil and the encoder's error, or buf; the entry
\* point returns what it returned.
ReturnAt(p) ==
    /\ inv[p].pc = "encoding"
    /\ IF emittable(inv[p].doc)
       THEN /\ inv[p].pending = <<>>
            /\ inv' = [inv EXCEPT ![p] =
                         [@ EXCEPT !.output = [kind |-> "yaml", root |-> Mapping(bufs[bufOf(p)])],
                                   !.pc = "done"]]
       ELSE inv' = [inv EXCEPT ![p] = [@ EXCEPT !.err = ErrMarshal, !.pending = <<>>, !.pc = "done"]]
    /\ UNCHANGED <<bufs, pipeVars, editorVars, cliVars, probeVars>>

\* The goroutine calls an entry point again.
CallAgainAt(p) ==
    /\ inv[p].pc = "done"
    /\ \E o \in Ops, in \in ConcInputs : inv' = [inv EXCEPT ![p] = called(o, in)]
    /\ UNCHANGED <<bufs, pipeVars, editorVars, cliVars, probeVars>>

ConcCheckInput == \E p \in Procs : CheckInputAt(p)
ConcParse == \E p \in Procs : ParseAt(p)
ConcValidate == \E p \in Procs : ValidateAt(p)
ConcTransform == \E p \in Procs : TransformAt(p)
ConcNewEncoder == \E p \in Procs : NewEncoderAt(p)
ConcWrite == \E p \in Procs : WriteAt(p)
ConcReturn == \E p \in Procs : ReturnAt(p)
ConcCallAgain == \E p \in Procs : CallAgainAt(p)

ConcNext ==
    \/ ConcCheckInput \/ ConcParse \/ ConcValidate \/ ConcTransform
    \/ ConcNewEncoder \/ ConcWrite \/ ConcReturn \/ ConcCallAgain

SpecConcurrent == ConcInit /\ [][ConcNext]_vars

----------------------------------------------------------------------------
\* IsSecret next to the pipelines: a caller asks IsSecret about a text and
\* hands the same text to an entry point, in either order.

\* The texts asked about: empty, unparseable, without content, and every
\* shape of root (kind absent, Secret, ConfigMap, non-scalar; roots that
\* are not mappings).
ProbeInputs ==
    { [kind |-> "empty"], [kind |-> "garbage"], [kind |-> "blank"] }
    \cup { [kind |-> "yaml", root |-> r] : r \in ShapeRoots \cup OtherRoots }

IsSecretInit ==
    /\ op \in Ops
    /\ input \in ProbeInputs
    /\ pc = "start"
    /\ doc = NoDoc
    /\ err = NoErr
    /\ output = Nil
    /\ stages = <<>>
    /\ calls = <<>>
    /\ prev = NoPrev
    /\ chain = 0
    /\ probe = NotCalled
    /\ EditorIdle /\ CliIdle /\ ConcIdle

\* IsSecret(input): its doc is a local, its only result a bool.
CallIsSecret ==
    /\ probe' = [called |-> TRUE, input |-> input, result |-> IsSecret(input)]
    /\ UNCHANGED <<pipeVars, editorVars, cliVars, concVars>>

IsSecretNext ==
    CheckInput \/ Parse \/ Validate \/ Transform \/ Serialize \/ CallIsSecret

SpecIsSecret == IsSecretInit /\ [][IsSecretNext]_vars

----------------------------------------------------------------------------
\* Vocabulary of the properties.

\* The stage s has executed in this invocation.
Ran(s) == \E i \in 1..Len(stages) : stages[i] = s

\* The text in parses to a document whose root is a mapping with a "kind"
\* pair whose value is the scalar "Secret".
IsSecretText(in) ==
    /\ in.kind = "yaml"
    /\ in.root.kind = "mapping"
    /\ \E i \in 1..Len(in.root.content) :
          /\ in.root.content[i].key = "kind"
          /\ in.root.content[i].val.kind = "scalar"
          /\ in.root.content[i].val.value = SecretText

\* The keys of a mapping, in order.
KeysOf(m) == [i \in 1..Len(m.content) |-> m.content[i].key]

\* The root of text in has a pair with this key.
HasKey(in, key) == \E i \in 1..Len(in.root.content) : in.root.content[i].key = key

\* The value of the pair with this key (the pair exists).
FieldOf(in, key) ==
    in.root.content[CHOOSE i \in 1..Len(in.root.content) : in.root.content[i].key = key].val

\* A Secret whose data is a mapping.
HasDataMapping(in) ==
    IsSecretText(in) /\ HasKey(in, "data") /\ FieldOf(in, "data").kind = "mapping"

\* A Secret whose data is a mapping of scalars only.
HasScalarData(in) ==
    /\ HasDataMapping(in)
    /\ \A i \in 1..Len(FieldOf(in, "data").content) :
          FieldOf(in, "data").content[i].val.kind = "scalar"

\* The (key, text) pairs of a data mapping of scalars, in order.
DataTexts(in) ==
    LET c == FieldOf(in, "data").content
    IN [i \in 1..Len(c) |-> <<c[i].key, c[i].val.value>>]

\* t is a canonical padded standard encoding (RFC 4648): whole groups of
\* four alphabet characters, at most two '=' and only at the very end, and
\* zero bits in the unused part of the last character before the padding.
CanonicalEncoding(t) ==
    LET n == Len(t)
        pads == IF n >= 2 /\ t[n] = 61 /\ t[n-1] = 61 THEN 2
                ELSE IF n >= 1 /\ t[n] = 61 THEN 1 ELSE 0
    IN /\ n % 4 = 0
       /\ \A i \in 1..(n - pads) : decodeMap(t[i]) # 255
       /\ pads = 2 => decodeMap(t[n-2]) % 16 = 0
       /\ pads = 1 => decodeMap(t[n-1]) % 4 = 0

\* This invocation is a conceal of the output of a reveal, and has returned.
RevealThenConcealDone ==
    pc = "done" /\ op = "conceal" /\ prev.op = "reveal"

----------------------------------------------------------------------------
----------------------------------------------------------------------------
\* The pairs of a root mapping outside "data", with their positions.
Siblings(root) ==
    { <<i, root.content[i]>> : i \in { k \in 1..Len(root.content) : root.content[k].key # "data" } }

\* C2: in both pipelines, every top-level pair other than "data"
\* (stringData, kind, type, ...) is the same, at the same position, in the
\* tree at every stage and in the output as in the input, and the codec is
\* only ever applied to values that stand under "data" in the input.
SiblingIsolation ==
    (input.kind = "yaml" /\ input.root.kind = "mapping") =>
        /\ doc # NoDoc => /\ Siblings(doc.content[1]) = Siblings(input.root)
                          /\ KeysOf(doc.content[1]) = KeysOf(input.root)
        /\ output # Nil => /\ Siblings(output.root) = Siblings(input.root)
                           /\ KeysOf(output.root) = KeysOf(input.root)
        /\ \A c \in 1..Len(calls) :
              /\ HasDataMapping(input)
              /\ \E i \in 1..Len(FieldOf(input, "data").content) :
                    /\ FieldOf(input, "data").content[i].key = calls[c].key
                    /\ Value(FieldOf(input, "data").content[i].val) = calls[c].arg

\* C2 witness: a document with both data and stringData went through a
\* pipeline that changed a data value, and stringData came out as it went in.
SiblingIsolationWitness ==
    /\ pc = "done" /\ output # Nil
    /\ HasDataMapping(input) /\ HasKey(input, "stringData")
    /\ FieldOf(output, "data") # FieldOf(input, "data")
    /\ FieldOf(output, "stringData") = FieldOf(input, "stringData")

----------------------------------------------------------------------------
\* The keys of the data mapping of in whose scalar value does not decode.
BadKeys(in) ==
    { FieldOf(in, "data").content[i].key :
        i \in { k \in 1..Len(FieldOf(in, "data").content) :
                  /\ FieldOf(in, "data").content[k].val.kind = "scalar"
                  /\ ~decodeBase64(FieldOf(in, "data").content[k].val.value).ok } }

\* C3: when reveal has returned on a Secret whose data mapping holds a
\* scalar that is not valid standard-encoded text, it has returned the
\* transform stage's invalid-encoding error naming a key with such a value;
\* and whenever an error is returned the output is nil.
FailFastOnBadInput ==
    /\ (pc = "done" /\ op = "reveal" /\ HasDataMapping(input) /\ BadKeys(input) # {}) =>
          /\ err.stage = "transform"
          /\ err.cause = "invalid base64"
          /\ err.key \in BadKeys(input)
    /\ err # NoErr => output = Nil

\* C3 witness: reveal failed on the second of two values, after it had
\* decoded the first in place, and returned no output.
FailFastWitness ==
    /\ pc = "done" /\ op = "reveal" /\ HasDataMapping(input)
    /\ BadKeys(input) = {"password"}
    /\ Len(calls) = 2
    /\ err = ErrTransform("password")
    /\ doc.content[1] # input.root
    /\ output = Nil

----------------------------------------------------------------------------
\* C4 as stated: a Secret whose "data" is present and not a mapping makes
\* both pipelines return an error.  Violated: transformData returns nil.
NonMappingDataIsAnError ==
    ( /\ pc = "done"
      /\ IsSecretText(input) /\ HasKey(input, "data")
      /\ FieldOf(input, "data").kind # "mapping" )
        => err # NoErr

----------------------------------------------------------------------------
\* C5: once validation has run, it has accepted the document if and only
\* if the root is a mapping with a "kind" pair whose value is the scalar
\* "Secret"; a rejection is an error of the validate stage, the same for
\* reveal and conceal, and for a rejected document the transform never
\* runs, the codec is applied to nothing and the tree is left as parsed.
KindDiscrimination ==
    Ran("validate") =>
        /\ (err.stage # "validate") <=> IsSecretText(input)
        /\ ~IsSecretText(input) =>
              /\ pc = "done" /\ output = Nil
              /\ ~Ran("transform") /\ ~Ran("serialize")
              /\ calls = <<>>
              /\ input.kind = "yaml" => doc = Document(input.root)

\* C5 witness: a ConfigMap with a data mapping is rejected by conceal.
KindDiscriminationWitness ==
    /\ pc = "done" /\ op = "conceal"
    /\ input.kind = "yaml" /\ input.root.kind = "mapping"
    /\ HasKey(input, "kind") /\ FieldOf(input, "kind") = Scalar(ConfigMapText, "Plain")
    /\ HasKey(input, "data") /\ FieldOf(input, "data").kind = "mapping"
    /\ Len(FieldOf(input, "data").content) > 0
    /\ err = ErrNotSecret

----------------------------------------------------------------------------
\* The text s holds a line feed.
HasLineFeed(s) == 10 \in { s[i] : i \in 1..Len(s) }

\* Every scalar value of the data mapping m is Literal if its text holds a
\* line feed and Plain if not.
StyledByContent(m) ==
    \A i \in 1..Len(m.content) :
        m.content[i].val.kind = "scalar" =>
            m.content[i].val.style = (IF HasLineFeed(m.content[i].val.value) THEN "Literal" ELSE "Plain")

\* C6: once transformData has succeeded, in either direction, every scalar
\* value under data is Literal if and only if its new text holds a line
\* break ('\n') and Plain otherwise, whatever its style was before; the
\* same holds of the output.
StyleSelection ==
    (HasDataMapping(input) /\ Ran("transform") /\ err.stage # "transform") =>
        /\ StyledByContent(findField(doc.content[1], "data"))
        /\ output # Nil => StyledByContent(FieldOf(output, "data"))

\* C6 witness: reveal turned the Plain "YQo=" into the Literal "a\n" and
\* the Literal "YQ==" into the Plain "a".
StyleSelectionWitness ==
    /\ pc = "done" /\ op = "reveal" /\ output # Nil
    /\ HasDataMapping(input)
    /\ FieldOf(input, "data").content =
          << Pair("username", Scalar(<<89, 81, 111, 61>>, "Plain")),
             Pair("password", Scalar(<<89, 81, 61, 61>>, "Literal")) >>
    /\ FieldOf(output, "data").content =
          << Pair("username", Scalar(<<97, 10>>, "Literal")),
             Pair("password", Scalar(<<97>>, "Plain")) >>

----------------------------------------------------------------------------
\* A Secret without a top-level "data" pair.
SecretWithoutData(in) == IsSecretText(in) /\ ~HasKey(in, "data")

\* C7: on a Secret without a "data" key, reveal and conceal both return
\* success, apply the codec to nothing, and return the input document (same
\* keys, same order, same values); a second pipeline on that output returns
\* the same output again.
NoOpOnAbsentSection ==
    (pc = "done" /\ SecretWithoutData(input)) =>
        /\ err = NoErr
        /\ calls = <<>>
        /\ output = input
        /\ (prev.op # "none" /\ SecretWithoutData(prev.input)) => output = prev.output

\* C7 witness: a Secret with stringData and no data went through one
\* pipeline and then through conceal, and came out as it went in.
NoOpWitness ==
    /\ pc = "done" /\ op = "conceal" /\ chain = 1
    /\ SecretWithoutData(prev.input) /\ HasKey(prev.input, "stringData")
    /\ output = prev.input

----------------------------------------------------------------------------
\* A Secret whose "data" is a mapping without pairs.
SecretWithEmptyData(in) ==
    IsSecretText(in) /\ HasKey(in, "data") /\ FieldOf(in, "data") = Mapping(<<>>)

\* C8: on a Secret whose "data" is an empty mapping, reveal and conceal
\* both return success and the output still has the "data" key with an
\* empty mapping as its value.
EmptyMapPreservation ==
    (pc = "done" /\ SecretWithEmptyData(input)) =>
        /\ err = NoErr /\ output # Nil
        /\ SecretWithEmptyData(output)
        /\ KeysOf(output.root) = KeysOf(input.root)

\* C8 witness: reveal returned a document with data: {} and stringData.
EmptyMapWitness ==
    /\ pc = "done" /\ op = "reveal"
    /\ SecretWithEmptyData(input) /\ HasKey(input, "stringData")
    /\ SecretWithEmptyData(output)

----------------------------------------------------------------------------
\* C9: on a zero-length input, and on an input that parses to a document
\* without a root node, neither pipeline gets past validation, neither
\* returns an output, and each returns an error.
EmptyInputIsAnError ==
    input.kind \in {"empty", "blank"} =>
        /\ output = Nil
        /\ pc \notin {"validated", "transformed"}
        /\ ~Ran("transform") /\ ~Ran("serialize")
        /\ pc = "done" => err # NoErr

\* C9 witness: conceal returned "empty input" on a zero-length input
\* before any stage ran.
EmptyInputWitness ==
    /\ pc = "done" /\ op = "conceal"
    /\ input.kind = "empty"
    /\ err = ErrEmpty /\ output = Nil /\ stages = <<>>

----------------------------------------------------------------------------
StageOrder == <<"parse", "validate", "transform", "serialize">>

\* C10: in both pipelines the stages that have run are an initial part of
\* parse, validate, transform, serialize; once an error is set the
\* invocation has returned, the error is that of the last stage that ran
\* ("empty input" when none ran) and the output is nil; the output is
\* non-nil only when all four stages ran without error, and then it is.
PipelineShortCircuit ==
    /\ Len(stages) <= Len(StageOrder)
    /\ stages = SubSeq(StageOrder, 1, Len(stages))
    /\ err # NoErr =>
          /\ pc = "done"
          /\ output = Nil
          /\ IF stages = <<>> THEN err = ErrEmpty ELSE err.stage = stages[Len(stages)]
    /\ output # Nil => (stages = StageOrder /\ err = NoErr /\ pc = "done")
    /\ (pc = "done" /\ err = NoErr) => output # Nil

\* C10 witness: reveal failed in the transform stage and serialize never ran.
ShortCircuitWitness ==
    /\ pc = "done" /\ op = "reveal"
    /\ stages = <<"parse", "validate", "transform">>
    /\ err.stage = "transform"
    /\ output = Nil

----------------------------------------------------------------------------
\* The pairs of a mapping content whose value is a scalar, in order.
ScalarPairs(content) == SelectSeq(content, LAMBDA e : e.val.kind = "scalar")

\* The codec applications that visiting these pairs in order makes.
AsCalls(pairs) == [i \in 1..Len(pairs) |-> [key |-> pairs[i].key, arg |-> pairs[i].val.value]]

\* The position of the first pair, in document order, whose scalar value
\* the codec of direction o refuses; 0 when there is none.
FirstFailing(content, o) ==
    LET bad == { i \in 1..Len(content) :
                    /\ content[i].val.kind = "scalar"
                    /\ ~applyTransform(transformOf(o), content[i].val.value).ok }
    IN IF bad = {} THEN 0 ELSE CHOOSE i \in bad : \A k \in bad : i <= k

\* C15: once the transform stage has run on a Secret with a data mapping,
\* the codec has been applied to the scalar values in document order; if
\* some value fails, the error names the first failing key in that order
\* and the codec has been applied to no value after it.
FailFastOrder ==
    (HasDataMapping(input) /\ Ran("transform")) =>
        LET c == FieldOf(input, "data").content
            fb == FirstFailing(c, op)
        IN IF fb = 0
           THEN err.stage # "transform" /\ calls = AsCalls(ScalarPairs(c))
           ELSE /\ err = ErrTransform(c[fb].key)
                /\ calls = AsCalls(ScalarPairs(SubSeq(c, 1, fb)))
                /\ \A i \in (fb + 1)..Len(c) :
                      findField(doc.content[1], "data").content[i] = c[i]

\* C15 witness: of three values the second and the third do not decode;
\* reveal names the second, has decoded the first and has not touched the third.
FailFastOrderWitness ==
    /\ pc = "done" /\ op = "reveal" /\ HasDataMapping(input)
    /\ Len(FieldOf(input, "data").content) = 3
    /\ BadKeys(input) = {"password", "token"}
    /\ err = ErrTransform("password")
    /\ Len(calls) = 2
    /\ findField(doc.content[1], "data").content[1].val = Scalar(<<97>>, "Plain")
    /\ findField(doc.content[1], "data").content[3].val = Scalar(<<97>>, "Plain")

----------------------------------------------------------------------------
\* C16: a value under data that is not a scalar is never the cause of an
\* error, and once transformData has succeeded it is as it was in the
\* input, while every scalar in the same mapping, before and after it,
\* holds the codec's result for its input text.
NonScalarPassThrough ==
    (HasDataMapping(input) /\ Ran("transform")) =>
        LET c == FieldOf(input, "data").content
            now == findField(doc.content[1], "data").content
        IN /\ \A i \in 1..Len(c) : c[i].val.kind # "scalar" => now[i] = c[i]
           /\ err.stage = "transform" =>
                 \E i \in 1..Len(c) : c[i].key = err.key /\ c[i].val.kind = "scalar"
           /\ err.stage # "transform" =>
                 \A i \in 1..Len(c) : c[i].val.kind = "scalar" =>
                    /\ now[i].val.kind = "scalar"
                    /\ now[i].val.value = applyTransform(transformOf(op), c[i].val.value).val
           /\ (\A i \in 1..Len(c) : c[i].val.kind # "scalar") => err.stage # "transform"

\* C16 witness: reveal returned a data mapping whose nested mapping stands
\* unchanged between a decoded "a" and a decoded "a\n".
NonScalarWitness ==
    /\ pc = "done" /\ op = "reveal" /\ output # Nil /\ HasDataMapping(input)
    /\ Len(FieldOf(input, "data").content) = 3
    /\ FieldOf(input, "data").content[2].val.kind = "mapping"
    /\ FieldOf(output, "data").content[1].val = Scalar(<<97>>, "Plain")
    /\ FieldOf(output, "data").content[2] = FieldOf(input, "data").content[2]
    /\ FieldOf(output, "data").content[3].val = Scalar(<<97, 10>>, "Literal")

----------------------------------------------------------------------------
\* C17: once transformData has succeeded on a Secret, the root has the
\* keys it had, in the same order; if data is a mapping it has as many
\* pairs, with the same keys in the same order, and the codec has been
\* applied exactly once to each of its scalar values, in order, and to
\* nothing else; if data is no mapping the codec has been applied to nothing.
OrderAndKeyPreservation ==
    (IsSecretText(input) /\ Ran("transform") /\ err.stage # "transform") =>
        /\ KeysOf(doc.content[1]) = KeysOf(input.root)
        /\ output # Nil => KeysOf(output.root) = KeysOf(input.root)
        /\ IF HasDataMapping(input)
           THEN /\ KeysOf(findField(doc.content[1], "data")) = KeysOf(FieldOf(input, "data"))
                /\ calls = AsCalls(ScalarPairs(FieldOf(input, "data").content))
                /\ output # Nil => KeysOf(FieldOf(output, "data")) = KeysOf(FieldOf(input, "data"))
           ELSE calls = <<>>

\* C17 witness: conceal returned a document with stringData before data
\* before kind, after one codec application for each of its two data values.
OrderWitness ==
    /\ pc = "done" /\ op = "conceal" /\ output # Nil /\ HasDataMapping(input)
    /\ KeysOf(output.root) = <<"stringData", "data", "kind">>
    /\ KeysOf(FieldOf(output, "data")) = <<"username", "password", "token">>
    /\ Len(calls) = 3
    /\ calls[1].key = "username" /\ calls[2].key = "password" /\ calls[3].key = "token"

----------------------------------------------------------------------------
\* C18: encodeBase64 succeeds on every text it is applied to, so conceal
\* never fails in the transform stage: on every input that parses and
\* passes validation its transform stage returns success, whatever the
\* data values are.
EncodingIsTotal ==
    op = "conceal" =>
        /\ \A i \in 1..Len(calls) : encodeBase64(calls[i].arg).ok
        /\ err.stage # "transform"
        /\ Ran("transform") => (pc \in {"transformed", "done"} /\ err = NoErr)
        /\ (pc = "done" /\ IsSecretText(input)) => Ran("transform")

\* C18 witness: conceal went through the transform stage on values that
\* are not valid standard-encoded text, the empty text among them.
EncodingTotalWitness ==
    /\ op = "conceal" /\ pc = "transformed" /\ err = NoErr
    /\ HasDataMapping(input)
    /\ BadKeys(input) # {}
    /\ \E i \in 1..Len(calls) : calls[i].arg = <<>>
    /\ Len(calls) = 2

----------------------------------------------------------------------------
\* The validation errors given to mapping roots whose "kind" value is not
\* the scalar "Secret".
WrongKindErrors ==
    { validateSecret(Document(r)) :
        r \in { x \in Roots : /\ x.kind = "mapping"
                              /\ findField(x, "kind") # NilNode
                              /\ Value(findField(x, "kind")) # SecretText } }

\* A mapping root without a "kind" pair.
MissingKind(in) == in.kind = "yaml" /\ in.root.kind = "mapping" /\ ~HasKey(in, "kind")

\* C19 as stated: the error reported for a missing kind is never an error
\* reported for a wrong kind.  Violated: both are "not a Secret resource".
MissingAndWrongKindDiffer ==
    (Ran("validate") /\ MissingKind(input)) => err \notin WrongKindErrors

\* C19, amended: the validator reports a root that is not a mapping as
\* "expected YAML mapping" and a mapping root whose kind is missing or is
\* not the scalar "Secret" as "not a Secret resource"; a document without
\* a root is "invalid YAML document".  Not-a-mapping is never reported as
\* the error of a missing or wrong kind; missing and wrong kind are one error.
ValidationErrorClasses ==
    Ran("validate") =>
        /\ input.kind = "blank" => err = ErrInvalidDocument
        /\ (input.kind = "yaml" /\ input.root.kind # "mapping") => err = ErrExpectedMapping
        /\ MissingKind(input) => err = ErrNotSecret
        /\ (input.kind = "yaml" /\ input.root.kind = "mapping" /\ HasKey(input, "kind")
              /\ ~IsSecretText(input)) => err = ErrNotSecret
        /\ IsSecretText(input) => err.stage # "validate"
        /\ ErrExpectedMapping \notin WrongKindErrors \cup {ErrInvalidDocument}

\* C19 witness: reveal rejected a sequence root as "expected YAML mapping".
ValidationClassesWitness ==
    /\ pc = "done" /\ op = "reveal"
    /\ input.kind = "yaml" /\ input.root.kind = "sequence"
    /\ err = ErrExpectedMapping

----------------------------------------------------------------------------
\* This invocation is a reveal of the output of a conceal, and has returned.
ConcealThenRevealDone ==
    pc = "done" /\ op = "reveal" /\ prev.op = "conceal"

\* C20: after conceal then reveal of a Secret whose data values are
\* scalars of any text, the reveal has succeeded, every data value is the
\* original plaintext, key by key, and every value is Literal if and only
\* if that plaintext holds a line feed.
ConcealThenRevealIdentity ==
    (ConcealThenRevealDone /\ HasScalarData(prev.input)) =>
        /\ err = NoErr /\ output # Nil
        /\ DataTexts(output) = DataTexts(prev.input)
        /\ StyledByContent(FieldOf(output, "data"))
        /\ \A i \in 1..Len(prev.calls) : decodeBase64(encodeBase64(prev.calls[i].arg).val).val = prev.calls[i].arg

\* C20 witness: the Plain plaintext "a\n" and the text "YR==" went through
\* conceal and reveal and came back, the first now Literal.
ConcealRevealWitness ==
    /\ ConcealThenRevealDone /\ HasScalarData(prev.input)
    /\ FieldOf(prev.input, "data").content =
          << Pair("username", Scalar(<<97, 10>>, "Plain")),
             Pair("password", Scalar(<<89, 82, 61, 61>>, "Literal")) >>
    /\ FieldOf(input, "data").content # FieldOf(prev.input, "data").content
    /\ FieldOf(output, "data").content =
          << Pair("username", Scalar(<<97, 10>>, "Literal")),
             Pair("password", Scalar(<<89, 82, 61, 61>>, "Plain")) >>

----------------------------------------------------------------------------
\* C11: SelectEditor returns the flag value when it is not empty; otherwise
\* $EDITOR when not empty; otherwise $VISUAL when not empty; otherwise
\* "vi".  The result is never empty, and a lower-priority source is the
\* result only when every higher-priority source is empty.
EditorSelectionPriority ==
    selected # NotSelected =>
        LET f == selected.flagValue
            e == selected.env.EDITOR
            v == selected.env.VISUAL
            r == selected.result
        IN /\ r # ""
           /\ f # "" => r = f
           /\ (f = "" /\ e # "") => r = e
           /\ (f = "" /\ e = "" /\ v # "") => r = v
           /\ (f = "" /\ e = "" /\ v = "") => r = "vi"
           /\ r \in {f, e, v, "vi"}
           /\ (r # f) => f = ""
           /\ (r # f /\ r # e) => (f = "" /\ e = "")
           /\ (r # f /\ r # e /\ r # v) => (f = "" /\ e = "" /\ v = "")

\* C11 witness: without a flag, with $EDITOR and $VISUAL both set and
\* different, $EDITOR was selected.
EditorSelectionWitness ==
    /\ selected # NotSelected
    /\ selected.flagValue = ""
    /\ selected.env = [EDITOR |-> "vim", VISUAL |-> "emacs"]
    /\ selected.result = "vim"

----------------------------------------------------------------------------
\* The steps of a run that touch the files, in the order run makes them.
CliOrder ==
    << "read", "decode", "createTemp", "writeTemp", "closeTemp",
       "editor", "readEdited", "encode", "writeOriginal" >>

\* One of the named steps has executed and failed.
StepFailed(names) ==
    \E i \in 1..Len(trace.steps) : trace.steps[i].step \in names /\ ~trace.steps[i].ok

\* C12: a run reads and decodes the original, writes the temp file, launches
\* the editor, reads and encodes the temp file and overwrites the original,
\* in this order, each step only after every earlier one succeeded.  The
\* original is written at most once, only with what EncodeSecretData
\* returned for the edited text; without that write it is unchanged, and a
\* run in which a step failed returns an error.
WorkflowOrdering ==
    /\ Len(trace.steps) <= Len(CliOrder)
    /\ \A i \in 1..Len(trace.steps) :
          /\ trace.steps[i].step = CliOrder[i]
          /\ i < Len(trace.steps) => trace.steps[i].ok
    /\ Len(trace.writes) <= 1
    /\ \A i \in 1..Len(trace.writes) :
          /\ trace.writes[i] # Nil
          /\ EncodeSecretData(run.edited) = [err |-> NoErr, out |-> trace.writes[i]]
    /\ Len(trace.writes) = 0 => fs.original = trace.original
    /\ StepFailed({"read", "decode", "editor", "readEdited", "encode"})
          => fs.original = trace.original
    /\ run.pc = "returned" /\ StepFailed({ CliOrder[i] : i \in 1..Len(CliOrder) })
          => run.err # NoErr
    /\ run.pc = "returned" /\ run.err = NoErr
          => Len(trace.steps) = Len(CliOrder) /\ fs.original = run.encoded

\* A run that succeeded and left the original with another content.
WorkflowWitness ==
    /\ run.pc = "returned"
    /\ run.err = NoErr
    /\ Len(trace.writes) = 1
    /\ fs.original # trace.original

\* C13: when run has returned there is no temp file, whichever step ended
\* the run; when processSecretFile returned an error, the cleanup function
\* and the path it returned are nil and "", and the temp file it may have
\* created is gone.
TempFileReleased ==
    /\ run.pc = "returned" => fs.tmp = Absent
    /\ run.pc = "returned" /\ ~run.deferred
          => run.cleanup = NoCleanup /\ run.tmpFile = "" /\ run.err # NoErr
    /\ run.pc = "returned" /\ run.deferred
          => trace.created /\ trace.removed /\ run.cleanup = RemoveTemp

\* processSecretFile had created the temp file when closing it failed, and
\* run has returned.
TempFileWitness ==
    /\ run.pc = "returned"
    /\ trace.created
    /\ StepFailed({"closeTemp"})
    /\ fs.tmp = Absent

----------------------------------------------------------------------------
\* C14: however the steps of concurrent invocations interleave, an
\* invocation that has returned returned the error and the bytes that the
\* entry point gives for its input alone; while it encodes, its buffer
\* holds its own writes and nothing else; and at its call it holds nothing
\* of an earlier invocation.
Reentrancy ==
    \A p \in Procs :
        /\ inv[p].pc = "done"
              => [err |-> inv[p].err, out |-> inv[p].output] = RunEntryPoint(inv[p].op, inv[p].input)
        /\ inv[p].pc = "encoding"
              => bufs[bufOf(p)] \o inv[p].pending = chunks(inv[p].doc)
        /\ inv[p].pc = "start"
              => inv[p] = called(inv[p].op, inv[p].input)

\* Two invocations on different calls have both returned bytes, and the
\* writes of one fell between the writes of the other.
ReentrancyWitness ==
    /\ inv[1].pc = "done" /\ inv[2].pc = "done"
    /\ inv[1].err = NoErr /\ inv[2].err = NoErr
    /\ inv[1].output # inv[2].output
    /\ inv[1].overlapped /\ inv[2].overlapped

----------------------------------------------------------------------------
\* The entry point has got past its parse and validate stages.
PastValidate == pc \in {"validated", "transformed"} \/ Ran("transform")

\* The input is non-empty, parses, and passes validateSecret.
PassesValidation ==
    /\ input.kind # "empty"
    /\ Unmarshal(input).err = NoErr
    /\ validateSecret(Unmarshal(input).doc) = NoErr

\* C21: IsSecret answers true exactly for the inputs that are non-empty,
\* parse and pass validateSecret, which are the inputs on which an entry
\* point gets past parse and validate; its answer is a bool, never an
\* error, and the text it was asked about is as it was.
IsSecretAgreesWithValidation ==
    probe.called =>
        /\ probe.result \in BOOLEAN
        /\ probe.input = input
        /\ probe.result <=> PassesValidation
        /\ (pc = "done" \/ PastValidate) => (probe.result <=> PastValidate)
        /\ (pc = "done" /\ err.stage \in {"input", "parse", "validate"}) => ~probe.result

\* IsSecret has answered true on a text whose root has other fields
\* before "kind", and the entry point has validated the same text.
IsSecretWitness ==
    /\ probe.called
    /\ probe.result
    /\ PastValidate
    /\ input.root.content[1].key # "kind"


====
